---- MODULE Spec2Model ----
(***************************************************************************)
(* A model of the scull character device (src/scull/scull.c): the device  *)
(* table, the chain of quantum sets that backs each device, the per-device *)
(* mutex, the file operations open / release / read / write and the        *)
(* diagnostic listing scull_proc_seqshow.                                  *)
(*                                                                         *)
(* A process of the model is one open file description (struct file): it   *)
(* carries private_data and the offset cursor f_pos, and issues one file   *)
(* operation at a time.  The access mode is an argument of scull_open, the *)
(* only place that reads it; which calls the VFS lets through for a mode   *)
(* is not modelled, a file opened O_RDWR can make them all.  An operation  *)
(* is cut at the points where another thread may run: before               *)
(* mutex_lock_interruptible, inside the critical section (allocation,      *)
(* copy, size update) and at mutex_unlock.                                 *)
(***************************************************************************)
EXTENDS Integers, Sequences, FiniteSets, TLC

VARIABLES
    scull_quantum,  \* module parameter: default quantum size
    scull_qset,     \* module parameter: default quantum-set size
    scull_num_devs, \* module parameter: number of devices
    kmod,           \* the module: loaded or not, what scull_init set up and
                    \* scull_cleanup went through
    scull_devices,  \* device table: index -> [data, quantum, qset, size]
    lock,           \* dev->lock of every device: owner, or NoOwner
    pc,             \* position of every process inside its file operation
    private_data,   \* filp->private_data: device index, or NoDev
    f_pos,          \* the offset cursor *f_pos
    loc,            \* arguments, locals and result of the running call (off, size0: the
                    \* cursor and the device size when the call was made)
    loop            \* history: the caller's write-all loop (start, bytes, size at start)

vars == <<scull_quantum, scull_qset, scull_num_devs, kmod, scull_devices, lock, pc, private_data, f_pos, loc, loop>>

-----------------------------------------------------------------------------
(* Bounds of the exploration *)

MaxEnd == 5      \* callers stay within the offsets 0 .. MaxEnd
MaxLen == 3      \* longest user buffer / read count
MaxAlloc == 2    \* successful kzalloc calls followed in a scull_follow walk of 2^32 + n links
MaxGarbage == 2  \* longest chain read out of the memory after the table
MaxNumDevs == 6  \* largest scull_num_devs given to insmod

(* Program constants *)

NumDevs == 4         \* scull_init allocates and sets up 4 devices
NoOwner == 0         \* mutex_init: the mutex is unlocked
NoDev == 9           \* no private_data: the file is not open (any value outside 0..NumDevs-1)
NULL == 0            \* NULL scull_qset pointer returned by scull_follow
O_RDONLY == 0
O_WRONLY == 1
O_RDWR == 2
O_ACCMODE == 3
ERESTARTSYS == 512
ENOMEM == 12
EFAULT == 14
IntMax == 2147483647 \* INT_MAX of the C int holding itemsize, item, rest, s_pos, q_pos

Devices == 0 .. (NumDevs - 1)
AllProcs == {1, 2}

-----------------------------------------------------------------------------
(* Arithmetic helpers *)

Max(a, b) == IF a >= b THEN a ELSE b
Min(a, b) == IF a <= b THEN a ELSE b

\* conversion of a long to a C int: the low 32 bits of x, read as a signed
\* int.  The bits are taken as two 16-bit halves, lo = bits 0-15 and
\* hi = bits 16-31; bit 31 is the sign.
ToInt(x) ==
    LET lo == x % 65536
        hi == (x \div 65536) % 65536
    IN  IF hi >= 32768 THEN (hi - 65536) * 65536 + lo ELSE hi * 65536 + lo

\* kmalloc in place of kzalloc: the fresh buffer holds what was there before
Zeros_not_cleared(n) == [i \in 1 .. n |-> 7]

\* the n zero bytes kzalloc returns
Zeros(n) == [i \in 1 .. n |-> 0]

-----------------------------------------------------------------------------
(* Address translation, as scull_read and scull_write compute it *)

\* INT_MIN
IntMin == -IntMax - 1

\* a * b as the product of two non-negative C ints: the low 32 bits of the
\* product, read as a signed int (the kernel is built with
\* -fno-strict-overflow, the multiplication wraps).  Factors below 2^15
\* cannot overflow; otherwise the product is computed on 16-bit halves so
\* that no intermediate value leaves 32 bits.
IntMul(a, b) ==
    IF a < 32768 /\ b < 32768 THEN a * b ELSE
    LET a1 == a \div 65536
        a0 == a % 65536
        b1 == b \div 65536
        b0 == b % 65536
        x == a0 * (b0 % 256)
        y == a0 * (b0 \div 256)
        t == x + 256 * (y % 256)
        lo == t % 65536
        cross == ((a1 * b0) % 65536) + ((a0 * b1) % 65536)
        hi == ((y \div 256) + (t \div 65536) + cross) % 65536
    IN  IF hi >= 32768 THEN (hi - 65536) * 65536 + lo ELSE hi * 65536 + lo

\* a / b in C for a >= 0 and b # 0: the quotient is cut towards zero
CDiv(a, b) ==
    IF b > 0 THEN a \div b
    ELSE IF b = IntMin THEN 0
    ELSE -(a \div (-b))

\* a % b in C for a >= 0 and b # 0: a - (a / b) * b
CMod(a, b) ==
    IF b > 0 THEN a % b
    ELSE IF b = IntMin THEN a
    ELSE a % (-b)

itemsize(dev) == IntMul(dev.quantum, dev.qset)
item(pos, dev) == ToInt(CDiv(pos, itemsize(dev)))
rest(pos, dev) == ToInt(CMod(pos, itemsize(dev)))
s_pos(pos, dev) == CDiv(rest(pos, dev), dev.quantum)
q_pos(pos, dev) == CMod(rest(pos, dev), dev.quantum)

\* the locals item, s_pos and q_pos after the translation statements
Translation(pos, dev) ==
    <<item(pos, dev), s_pos(pos, dev), q_pos(pos, dev)>>

\* the same when itemsize is 0 and the division does not trap: a hardware
\* divide that yields 0, rest is then pos - 0 * itemsize
TranslationDivZero(pos, dev) ==
    <<0, CDiv(pos, dev.quantum), CMod(pos, dev.quantum)>>

-----------------------------------------------------------------------------
(* The storage structure.  A chain of scull_qset is a sequence (next is    *)
(* the successor in the sequence); a scull_qset's data is <<>> when NULL   *)
(* and a sequence of qset slots otherwise; a slot is <<>> when NULL and a  *)
(* sequence of quantum bytes otherwise.                                    *)

EmptyQset == [data |-> <<>>]

Grow(chain, k) == chain \o [i \in 1 .. k |-> EmptyQset]

\* the links scull_follow(dev, n) walks: "while (n--)" ends when it finds
\* n at 0, so a negative n is counted down to INT_MIN, wraps (the kernel
\* is built with wrapping int arithmetic) and comes down to 0 after
\* 2^32 + n turns
Turns(n) == IF n < 0 THEN 2 * (IntMax + 1) + n ELSE n

\* the number of kzalloc calls scull_follow(dev, n) makes when none fails:
\* the segments missing up to the one it returns
FollowNeed(chain, n) ==
    IF Turns(n) + 1 > Len(chain) THEN Turns(n) + 1 - Len(chain) ELSE 0

\* the first mem kzalloc calls succeed and scull_follow(dev, n) needs no
\* more of them.  With n < 0 it needs 2^32 + n + 1 - Len(chain), at least
\* 2^31 + 1 - Len(chain): more than mem as long as mem + Len(chain) is at
\* most INT_MAX.
Reaches(chain, n, mem) ==
    IF n < 0 /\ mem + Len(chain) <= IntMax THEN FALSE
    ELSE mem >= FollowNeed(chain, n)

\* how many kzalloc calls succeed before one fails, in a call that makes
\* need of them when none fails: any number up to need.  A walk with n < 0
\* asks for some 2^32 segments; of it the calls with at most MaxAlloc
\* successful kzalloc are followed, which all end with a failed one.
Allocs(need, n) == 0 .. (IF n < 0 THEN MaxAlloc ELSE need)

\* scull_follow that unlinks and frees what it created when a kzalloc
\* fails
scull_follow_rolls_back(chain, n, mem) ==
    LET need == FollowNeed(chain, n)
    IN  IF Reaches(chain, n, mem)
        THEN [data |-> Grow(chain, need), dptr |-> Turns(n) + 1, used |-> need]
        ELSE [data |-> chain, dptr |-> NULL, used |-> mem]

\* scull_follow(dev, n) when the first mem kzalloc calls succeed and the
\* later ones fail: the new chain, the segment reached (1-based, NULL when
\* an allocation failed) and the number of allocations made.  When one
\* fails the segments linked before it stay in the chain.
scull_follow(chain, n, mem) ==
    LET need == FollowNeed(chain, n)
    IN  IF Reaches(chain, n, mem)
        THEN [data |-> Grow(chain, need), dptr |-> Turns(n) + 1, used |-> need]
        ELSE [data |-> Grow(chain, mem), dptr |-> NULL, used |-> mem]

\* scull_trim that frees the chain but forgets dev->size = 0
scull_trim_keeps_size(dev) ==
    [data |-> <<>>, size |-> dev.size, quantum |-> scull_quantum,
     qset |-> scull_qset]

scull_trim(dev) ==
    [data |-> <<>>, size |-> 0, quantum |-> scull_quantum, qset |-> scull_qset]

HasSlots(chain, dptr) == dptr # NULL /\ Len(chain[dptr].data) > 0

HasQuantum(chain, dptr, sp) ==
    HasSlots(chain, dptr) /\ Len(chain[dptr].data[sp + 1]) > 0

\* the test of scull_read: !dptr || !dptr->data || !dptr->data[s_pos]
IsHole(chain, dptr, sp) == ~HasQuantum(chain, dptr, sp)

\* CopyIn without the "+ q_pos": the bytes land at the start of the quantum
CopyIn_at_start(q, qp, bytes) ==
    [i \in 1 .. Len(q) |-> IF i <= Len(bytes) THEN bytes[i] ELSE q[i]]

\* memcpy of bytes into quantum q at q_pos
CopyIn(q, qp, bytes) ==
    [i \in 1 .. Len(q) |->
        IF i > qp /\ i <= qp + Len(bytes) THEN bytes[i - qp] ELSE q[i]]

\* ClampToQuantum left out: the count goes through as asked
ClampToQuantum_missing(count, dev, pos) == count

\* a transfer never crosses the end of the quantum
ClampToQuantum(count, dev, pos) ==
    IF count > dev.quantum - q_pos(pos, dev)
    THEN dev.quantum - q_pos(pos, dev)
    ELSE count

\* scull_read without the end-of-data test
PastEnd_never(dev, pos) == FALSE

\* the end-of-data test of scull_read: the cursor lies beyond size
PastEnd(dev, pos) == pos > dev.size

\* scull_read without the clamp to size
ClampToSize_missing(count, dev, pos) == count

\* scull_read clamps count to the bytes left before size
ClampToSize(count, dev, pos) ==
    IF pos + count > dev.size THEN dev.size - pos ELSE count

\* the size update of scull_write: size grows to the advanced cursor
SizeAfterWrite(size, pos) == IF size < pos THEN pos ELSE size

-----------------------------------------------------------------------------
(* The bodies of scull_write and scull_read as functions of the device     *)
(* state, the offset and what the environment does (how many kzalloc calls *)
(* succeed, how many bytes the user copy moves before it faults).          *)

\* number of kzalloc calls scull_write makes at pos when none fails
WriteNeed(dev, pos) ==
    LET it == item(pos, dev)
        sp == s_pos(pos, dev)
        seg == Turns(it) + 1
        old == seg <= Len(dev.data)
    IN  FollowNeed(dev.data, it)
        + (IF old /\ HasSlots(dev.data, seg) THEN 0 ELSE 1)
        + (IF old /\ HasQuantum(dev.data, seg, sp) THEN 0 ELSE 1)

\* scull_write up to the copy: scull_follow, the slot array, the quantum.
\* mem is the number of kzalloc calls that succeed before one fails.
scull_write_alloc(dev, pos, mem) ==
    LET it == item(pos, dev)
        sp == s_pos(pos, dev)
        f == scull_follow(dev.data, it, mem)
        left1 == mem - f.used
        needSlots == ~HasSlots(f.data, f.dptr)
        chain2 == IF needSlots
                  THEN [f.data EXCEPT ![f.dptr].data = [i \in 1 .. dev.qset |-> <<>>]]
                  ELSE f.data
        left2 == IF needSlots THEN left1 - 1 ELSE left1
        needQuantum == ~HasQuantum(chain2, f.dptr, sp)
        chain3 == IF needQuantum
                  THEN [chain2 EXCEPT ![f.dptr].data[sp + 1] = Zeros(dev.quantum)]
                  ELSE chain2
    IN  IF f.dptr = NULL
        THEN [dev |-> [dev EXCEPT !.data = f.data], dptr |-> NULL,
              retval |-> 0, path |-> "follow_null"]
        ELSE IF needSlots /\ left1 = 0
        THEN [dev |-> [dev EXCEPT !.data = f.data], dptr |-> f.dptr,
              retval |-> -ENOMEM, path |-> "qset_enomem"]
        ELSE IF needQuantum /\ left2 = 0
        THEN [dev |-> [dev EXCEPT !.data = chain2], dptr |-> f.dptr,
              retval |-> -ENOMEM, path |-> "quantum_enomem"]
        ELSE [dev |-> [dev EXCEPT !.data = chain3], dptr |-> f.dptr,
              retval |-> 0, path |-> "alloc_ok"]

\* copy_from_user of count bytes of buf when k of them are copied: k = count
\* is success; on a fault the kernel zero-fills the part it could not copy.
copy_from_user(q, qp, buf, count, k) ==
    CopyIn(q, qp, SubSeq(buf, 1, k) \o Zeros(count - k))

\* the device after the copy of scull_write
scull_write_copy(dev, dptr, pos, buf, count, k) ==
    LET sp == s_pos(pos, dev)
        qp == q_pos(pos, dev)
    IN  [dev EXCEPT !.data[dptr].data[sp + 1] =
            copy_from_user(dev.data[dptr].data[sp + 1], qp, buf, count, k)]

\* scull_write_finish whose fault path falls through to the cursor and size
\* update before it returns -EFAULT
scull_write_finish_advancing(dev, dptr, pos, buf, count, k) ==
    LET c == ClampToQuantum(count, dev, pos)
        copied == scull_write_copy(dev, dptr, pos, buf, c, k)
    IN  [dev |-> [copied EXCEPT !.size = SizeAfterWrite(@, pos + c)],
         f_pos |-> pos + c, count |-> c,
         retval |-> IF k < c THEN -EFAULT ELSE c,
         path |-> IF k < c THEN "fault" ELSE "ok"]

\* scull_write from the quantum clamp to label out: copy_from_user copies k
\* of the clamped count bytes; k < count is a fault and returns -EFAULT,
\* otherwise *f_pos advances, count is returned and size grows to *f_pos
scull_write_finish(dev, dptr, pos, buf, count, k) ==
    LET c == ClampToQuantum(count, dev, pos)
        copied == scull_write_copy(dev, dptr, pos, buf, c, k)
    IN  IF k < c
        THEN [dev |-> copied, f_pos |-> pos, count |-> c,
              retval |-> -EFAULT, path |-> "fault"]
        ELSE [dev |-> [copied EXCEPT !.size = SizeAfterWrite(@, pos + c)],
              f_pos |-> pos + c, count |-> c, retval |-> c, path |-> "ok"]

\* the bytes copy_to_user moves in scull_read
scull_read_bytes(dev, dptr, pos, count) ==
    LET sp == s_pos(pos, dev)
        qp == q_pos(pos, dev)
    IN  SubSeq(dev.data[dptr].data[sp + 1], qp + 1, qp + count)

\* scull_read from the quantum clamp to label out: copy_to_user either
\* faults and -EFAULT is returned, or the bytes are delivered, *f_pos
\* advances and count is returned
scull_read_finish(dev, dptr, pos, count, fault) ==
    LET c == ClampToQuantum(count, dev, pos)
    IN  IF fault
        THEN [f_pos |-> pos, count |-> c, retval |-> -EFAULT,
              path |-> "fault", out |-> <<>>]
        ELSE [f_pos |-> pos + c, count |-> c, retval |-> c, path |-> "ok",
              out |-> scull_read_bytes(dev, dptr, pos, c)]

\* scull_read on a device as one function, when no allocation and no copy
\* fails: the bytes returned by read(dev, pos, count).
ReadResult(dev, pos, count) ==
    IF PastEnd(dev, pos) THEN <<>>
    ELSE LET c1 == ClampToSize(count, dev, pos)
             it == item(pos, dev)
             f == scull_follow(dev.data, it, FollowNeed(dev.data, it))
             dv == [dev EXCEPT !.data = f.data]
         IN  IF IsHole(f.data, f.dptr, s_pos(pos, dev)) THEN <<>>
             ELSE scull_read_finish(dv, f.dptr, pos, c1, FALSE).out

\* a caller that reads count bytes from pos by repeated read calls, each at
\* the offset the previous one advanced to, until count bytes have arrived
\* or a call returns nothing
RECURSIVE ReadAll(_, _, _)
ReadAll(dev, pos, count) ==
    IF count = 0 THEN <<>>
    ELSE LET r == ReadResult(dev, pos, count)
         IN  IF Len(r) = 0 THEN <<>>
             ELSE r \o ReadAll(dev, pos + Len(r), count - Len(r))

\* the slots of segment qs that hold a quantum, as indexes 0 .. qset-1
OccupiedSlots(qs, qset) ==
    SelectSeq([i \in 1 .. qset |-> i - 1], LAMBDA i : qs.data[i + 1] # <<>>)

\* scull_proc_seqshow between lock and unlock: the header line (number of
\* segments, qset, quantum, size) and the occupied slots of the last
\* segment.  The loop reads qs->data[i] of the last segment without looking
\* at qs->data: on a last segment without slot array that is a read through
\* a null pointer (ub).
scull_proc_seqshow(dev) ==
    LET n == Len(dev.data)
        header == <<n, dev.qset, dev.quantum, dev.size>>
    IN  IF n > 0 /\ dev.qset > 0 /\ ~HasSlots(dev.data, n)
        THEN [ub |-> TRUE, out |-> header]
        ELSE [ub |-> FALSE,
              out |-> header \o (IF n = 0 THEN <<>>
                                 ELSE OccupiedSlots(dev.data[n], dev.qset))]

-----------------------------------------------------------------------------
(* Processes *)

InitLoc ==
    [op |-> "none", off |-> 0, buf |-> <<>>, count |-> 0, size0 |-> 0,
     dptr |-> NULL, retval |-> 0, path |-> "none", out |-> <<>>,
     v |-> NoDev, flags |-> O_RDONLY, tr |-> <<>>, raced |-> FALSE,
     mem |-> 0]

NoLoop == [active |-> FALSE, o |-> 0, b |-> <<>>, size0 |-> 0]

LockPcs == {"open_lock", "read_lock", "write_lock", "show_lock"}
UnlockPcs == {"open_unlock", "read_unlock", "write_unlock", "show_unlock"}
InsidePcs == {"open_trim", "read_body", "read_copy", "write_alloc",
              "write_copy", "show_body", "show_oops"} \cup UnlockPcs

AfterLock(at) ==
    CASE at = "open_lock" -> "open_trim"
      [] at = "read_lock" -> "read_body"
      [] at = "write_lock" -> "write_alloc"
      [] at = "show_lock" -> "show_body"

IsOpen(p) == private_data[p] # NoDev

\* the device whose mutex the operation of p uses: filp->private_data in
\* open, read and write, the iterator's element v in the diagnostic show
CurDev(p) == IF loc[p].op = "show" THEN loc[p].v ELSE private_data[p]

\* mutex_lock_interruptible that does not look at the owner
CanLock_always(d) == TRUE

\* mutex_lock_interruptible takes the mutex only when nobody holds it
CanLock(d) == lock[d] = NoOwner

\* The module.  pc is where insmod or rmmod stands, i the index of the loop
\* of scull_init or of scull_cleanup, inited the elements the loop of
\* scull_init has set up, cdevs the devices whose cdev is registered,
\* cleaned the indexes scull_cleanup has gone through, err the failure of
\* scull_init, going whether rmmod has begun, freed whether the table has
\* been given to kfree (the pointer scull_devices is left as it was).
\* the module before insmod
Unloaded ==
    [pc |-> "unloaded", i |-> 0, inited |-> {}, cdevs |-> {}, cleaned |-> {},
     err |-> "none", going |-> FALSE, freed |-> FALSE]

\* the module after a scull_init that returned 0
Live ==
    [pc |-> "live", i |-> NumDevs, inited |-> Devices, cdevs |-> Devices,
     cleaned |-> {}, err |-> "none", going |-> FALSE, freed |-> FALSE]

\* a file of device d can be opened from cdev_add to cdev_del, except once
\* rmmod has begun (the open takes a reference on scull_fops.owner, which
\* a module on its way out does not give)
CanOpen(d) == d \in kmod.cdevs /\ ~kmod.going

InitWith(quantum, qset) ==
    /\ scull_quantum = quantum
    /\ scull_qset = qset
    /\ scull_num_devs = NumDevs
    /\ kmod = Live
    /\ scull_devices = [d \in Devices |->
            [data |-> <<>>, quantum |-> quantum, qset |-> qset, size |-> 0]]
    /\ lock = [d \in Devices |-> NoOwner]
    /\ pc = [p \in AllProcs |-> "idle"]
    /\ private_data = [p \in AllProcs |-> NoDev]
    /\ f_pos = [p \in AllProcs |-> 0]
    /\ loc = [p \in AllProcs |-> InitLoc]
    /\ loop = [p \in AllProcs |-> NoLoop]

\* goto out: every exit of scull_read and scull_write after the lock was
\* taken goes through mutex_unlock
out_label(op, path) == IF op = "read" THEN "read_unlock" ELSE "write_unlock"

\* filp->f_flags & O_ACCMODE
AccMode(flags) == flags % (O_ACCMODE + 1)

\* scull_open trimming for every mode that can write
TrimsOnOpen_any_writer(flags) == AccMode(flags) # O_RDONLY

\* the test of scull_open: the file is opened write-only
TrimsOnOpen(flags) == AccMode(flags) = O_WRONLY

\* scull_open up to the lock: private_data is set, a write-only open goes on to trim
scull_open(p, d, flags) ==
    /\ CanOpen(d)
    /\ pc[p] = "idle"
    /\ ~IsOpen(p)
    /\ private_data' = [private_data EXCEPT ![p] = d]
    /\ loc' = [loc EXCEPT ![p] =
            [InitLoc EXCEPT !.op = "open",
                            !.size0 = scull_devices[d].size,
                            !.flags = flags,
                            !.path = IF TrimsOnOpen(flags) THEN "none" ELSE "ok"]]
    /\ pc' = [pc EXCEPT ![p] = IF TrimsOnOpen(flags) THEN "open_lock" ELSE "ret"]
    /\ UNCHANGED <<scull_num_devs, kmod, scull_quantum, scull_qset, scull_devices, lock, f_pos, loop>>

\* mutex_lock_interruptible returns 0: the caller owns the mutex
mutex_lock(p) ==
    /\ pc[p] \in LockPcs
    /\ CanLock(CurDev(p))
    /\ lock' = [lock EXCEPT ![CurDev(p)] = p]
    /\ pc' = [pc EXCEPT ![p] = AfterLock(pc[p])]
    /\ UNCHANGED <<scull_num_devs, kmod, scull_quantum, scull_qset, scull_devices, private_data, f_pos, loc, loop>>

\* scull_open with scull_trim placed before the lock: an interrupted
\* write-only open has already emptied the device
lock_interrupted_after_trim(p) ==
    /\ pc[p] \in LockPcs
    /\ ~CanLock(CurDev(p))
    /\ scull_devices' = [scull_devices EXCEPT ![CurDev(p)] =
            IF pc[p] = "open_lock" THEN scull_trim(@) ELSE @]
    /\ loc' = [loc EXCEPT ![p].retval = -ERESTARTSYS, ![p].path = "intr"]
    /\ loop' = [loop EXCEPT ![p] = NoLoop]
    /\ pc' = [pc EXCEPT ![p] = "ret"]
    /\ UNCHANGED <<scull_num_devs, kmod, scull_quantum, scull_qset, lock, private_data, f_pos>>

\* mutex_lock_interruptible is interrupted while it waits for the owner:
\* the operation returns -ERESTARTSYS
lock_interrupted(p) ==
    /\ pc[p] \in LockPcs
    /\ ~CanLock(CurDev(p))
    /\ loc' = [loc EXCEPT ![p].retval = -ERESTARTSYS, ![p].path = "intr"]
    /\ loop' = [loop EXCEPT ![p] = NoLoop]
    /\ pc' = [pc EXCEPT ![p] = "ret"]
    /\ UNCHANGED <<scull_num_devs, kmod, scull_quantum, scull_qset, scull_devices, lock,
                   private_data, f_pos>>

\* scull_trim called by scull_open with the lock held
open_trim(p) ==
    /\ pc[p] = "open_trim"
    /\ LET d == private_data[p]
       IN  /\ scull_devices' = [scull_devices EXCEPT ![d] = scull_trim(@)]
    /\ loc' = [loc EXCEPT ![p].path = "ok"]
    /\ pc' = [pc EXCEPT ![p] = "open_unlock"]
    /\ UNCHANGED <<scull_num_devs, kmod, scull_quantum, scull_qset, lock, private_data,
                   f_pos, loop>>

\* mutex_unlock at the end of open, read (label out) and write (label out)
mutex_unlock(p) ==
    /\ pc[p] \in UnlockPcs
    /\ lock' = [lock EXCEPT ![CurDev(p)] = NoOwner]
    /\ pc' = [pc EXCEPT ![p] = "ret"]
    /\ UNCHANGED <<scull_num_devs, kmod, scull_quantum, scull_qset, scull_devices, private_data, f_pos, loc, loop>>

\* scull_release: returns 0 and touches nothing
scull_release(p) ==
    /\ pc[p] = "idle"
    /\ IsOpen(p)
    /\ loc' = [loc EXCEPT ![p] = [InitLoc EXCEPT !.op = "release", !.path = "ok"]]
    /\ pc' = [pc EXCEPT ![p] = "ret"]
    /\ UNCHANGED <<scull_num_devs, kmod, scull_quantum, scull_qset, scull_devices, lock,
                   private_data, f_pos, loop>>

\* the caller takes the result; a failed open and a release leave no file.
\* Every call names its offset (pread, pwrite, or lseek before the call),
\* so the cursor of a finished call is not kept.
Return(p) ==
    /\ pc[p] = "ret"
    /\ LET closed == \/ loc[p].op = "release"
                     \/ (loc[p].op = "open" /\ loc[p].retval < 0)
       IN  /\ private_data' = [private_data EXCEPT ![p] = IF closed THEN NoDev ELSE @]
           /\ f_pos' = [f_pos EXCEPT ![p] = 0]
    /\ loc' = [loc EXCEPT ![p] = InitLoc]
    /\ loop' = [loop EXCEPT ![p] = NoLoop]
    /\ pc' = [pc EXCEPT ![p] = "idle"]
    /\ UNCHANGED <<scull_num_devs, kmod, scull_quantum, scull_qset, scull_devices, lock>>

\* read(fd, buf, count) with the cursor at off: entry of scull_read
read_call(p, off, count) ==
    /\ pc[p] = "idle"
    /\ IsOpen(p)
    /\ f_pos' = [f_pos EXCEPT ![p] = off]
    /\ loc' = [loc EXCEPT ![p] =
            [InitLoc EXCEPT !.op = "read", !.off = off, !.count = count,
                            !.size0 = scull_devices[private_data[p]].size]]
    /\ pc' = [pc EXCEPT ![p] = "read_lock"]
    /\ UNCHANGED <<scull_num_devs, kmod, scull_quantum, scull_qset, scull_devices, lock,
                   private_data, loop>>

\* scull_read from the end-of-data test to the hole test
read_body(p) ==
    /\ pc[p] = "read_body"
    /\ LET d == private_data[p]
           dev == scull_devices[d]
           pos == f_pos[p]
           it == item(pos, dev)
       IN  IF PastEnd(dev, pos)
           THEN /\ loc' = [loc EXCEPT ![p].retval = 0, ![p].path = "eof"]
                /\ pc' = [pc EXCEPT ![p] = out_label("read", "eof")]
                /\ UNCHANGED scull_devices
           ELSE \E mem \in Allocs(FollowNeed(dev.data, it), it) :
                  LET f == scull_follow(dev.data, it, mem)
                      c1 == ClampToSize(loc[p].count, dev, pos)
                  IN  /\ scull_devices' = [scull_devices EXCEPT ![d].data = f.data]
                      /\ IF IsHole(f.data, f.dptr, s_pos(pos, dev))
                         THEN /\ loc' = [loc EXCEPT ![p].count = c1,
                                                    ![p].dptr = f.dptr,
                                                    ![p].mem = mem,
                                                    ![p].retval = 0,
                                                    ![p].path = "hole"]
                              /\ pc' = [pc EXCEPT ![p] = out_label("read", "hole")]
                         ELSE /\ loc' = [loc EXCEPT ![p].count = c1,
                                                    ![p].dptr = f.dptr,
                                                    ![p].mem = mem]
                              /\ pc' = [pc EXCEPT ![p] = "read_copy"]
    /\ UNCHANGED <<scull_num_devs, kmod, scull_quantum, scull_qset, lock, private_data,
                   f_pos, loop>>

\* scull_read from the quantum clamp to label out; only a transfer of at
\* least one byte can fault
read_copy(p) ==
    /\ pc[p] = "read_copy"
    /\ LET dev == scull_devices[private_data[p]]
           pos == f_pos[p]
       IN  \E fault \in BOOLEAN :
             LET r == scull_read_finish(dev, loc[p].dptr, pos, loc[p].count, fault)
             IN  /\ fault => r.count > 0
                 /\ loc' = [loc EXCEPT ![p].count = r.count,
                                       ![p].retval = r.retval,
                                       ![p].path = r.path,
                                       ![p].out = r.out]
                 /\ f_pos' = [f_pos EXCEPT ![p] = r.f_pos]
                 /\ pc' = [pc EXCEPT ![p] = out_label("read", r.path)]
    /\ UNCHANGED <<scull_num_devs, kmod, scull_quantum, scull_qset, scull_devices, lock,
                   private_data, loop>>

\* the translation statements of scull_read and scull_write on their own,
\* for the cursor at pos on device d.  A division by an itemsize of 0 is
\* undefined: the thread is killed by the divide trap, or the divide
\* yields 0.
translate(p, d, pos) ==
    /\ kmod.pc = "live"
    /\ pc[p] = "idle"
    /\ LET dev == scull_devices[d]
       IN  IF itemsize(dev) = 0
           THEN \E trap \in BOOLEAN :
                  loc' = [loc EXCEPT ![p] =
                      [InitLoc EXCEPT !.op = "translate", !.off = pos, !.v = d,
                          !.path = IF trap THEN "trap" ELSE "div0",
                          !.tr = IF trap THEN <<>>
                                 ELSE TranslationDivZero(pos, dev)]]
           ELSE loc' = [loc EXCEPT ![p] =
                      [InitLoc EXCEPT !.op = "translate", !.off = pos, !.v = d,
                          !.path = "ok", !.tr = Translation(pos, dev)]]
    /\ pc' = [pc EXCEPT ![p] = "ret"]
    /\ UNCHANGED <<scull_num_devs, kmod, scull_quantum, scull_qset,
                   scull_devices, lock, private_data, f_pos, loop>>

\* a read of /proc/scullseq reaches device d: entry of scull_proc_seqshow
show_call(p, d) ==
    /\ kmod.pc = "live"
    /\ pc[p] = "idle"
    /\ loc' = [loc EXCEPT ![p] = [InitLoc EXCEPT !.op = "show", !.v = d]]
    /\ pc' = [pc EXCEPT ![p] = "show_lock"]
    /\ UNCHANGED <<scull_num_devs, kmod, scull_quantum, scull_qset, scull_devices, lock,
                   private_data, f_pos, loop>>

\* scull_proc_seqshow with the lock held.  The read through a null slot
\* array either faults, and the kernel kills the thread where it stands,
\* the mutex still held, or reads whatever lies at address zero, taken here
\* as empty slots.
show_body(p) ==
    /\ pc[p] = "show_body"
    /\ LET r == scull_proc_seqshow(scull_devices[CurDev(p)])
       IN  IF r.ub
           THEN \E fault \in BOOLEAN :
                  /\ loc' = [loc EXCEPT ![p].out = r.out, ![p].path = "ub"]
                  /\ pc' = [pc EXCEPT ![p] =
                            IF fault THEN "show_oops" ELSE "show_unlock"]
           ELSE /\ loc' = [loc EXCEPT ![p].out = r.out, ![p].path = "ok"]
                /\ pc' = [pc EXCEPT ![p] = "show_unlock"]
    /\ UNCHANGED <<scull_num_devs, kmod, scull_quantum, scull_qset, scull_devices, lock,
                   private_data, f_pos, loop>>

\* write(fd, buf, len) with the cursor at off: entry of scull_write; the
\* caller means to write all of buf starting here
write_call(p, off, buf) ==
    /\ pc[p] = "idle"
    /\ IsOpen(p)
    /\ f_pos' = [f_pos EXCEPT ![p] = off]
    /\ loc' = [loc EXCEPT ![p] =
            [InitLoc EXCEPT !.op = "write", !.off = off, !.buf = buf,
                            !.count = Len(buf),
                            !.size0 = scull_devices[private_data[p]].size]]
    /\ loop' = [loop EXCEPT ![p] =
            [active |-> TRUE, o |-> off, b |-> buf,
             size0 |-> scull_devices[private_data[p]].size]]
    /\ pc' = [pc EXCEPT ![p] = "write_lock"]
    /\ UNCHANGED <<scull_num_devs, kmod, scull_quantum, scull_qset, scull_devices, lock,
                   private_data>>

\* scull_write from the translation to the allocation of the quantum
write_alloc(p) ==
    /\ pc[p] = "write_alloc"
    /\ LET d == private_data[p]
           dev == scull_devices[d]
           pos == f_pos[p]
       IN  \E mem \in Allocs(WriteNeed(dev, pos), item(pos, dev)) :
             LET r == scull_write_alloc(dev, pos, mem)
             IN  /\ scull_devices' = [scull_devices EXCEPT ![d] = r.dev]
                 /\ loc' = [loc EXCEPT ![p].dptr = r.dptr,
                                       ![p].mem = mem,
                                       ![p].retval = r.retval,
                                       ![p].path = r.path]
                 /\ pc' = [pc EXCEPT ![p] =
                        IF r.path = "alloc_ok" THEN "write_copy"
                        ELSE out_label("write", r.path)]
                 /\ loop' = [loop EXCEPT ![p] =
                        IF r.path = "alloc_ok" THEN @ ELSE NoLoop]
    /\ UNCHANGED <<scull_num_devs, kmod, scull_quantum, scull_qset, lock, private_data,
                   f_pos>>

\* scull_write from the quantum clamp to label out; copy_from_user copies
\* k of the bytes, all of them unless it faults
write_copy(p) ==
    /\ pc[p] = "write_copy"
    /\ LET d == private_data[p]
           dev == scull_devices[d]
           pos == f_pos[p]
       IN  \E k \in 0 .. ClampToQuantum(loc[p].count, dev, pos) :
             LET r == scull_write_finish(dev, loc[p].dptr, pos, loc[p].buf,
                                         loc[p].count, k)
             IN  /\ scull_devices' = [scull_devices EXCEPT ![d] = r.dev]
                 /\ f_pos' = [f_pos EXCEPT ![p] = r.f_pos]
                 /\ loc' = [loc EXCEPT ![p].count = r.count,
                                       ![p].retval = r.retval,
                                       ![p].path = r.path]
                 /\ loop' = [loop EXCEPT ![p] = IF r.path = "ok" THEN @ ELSE NoLoop]
                 /\ pc' = [pc EXCEPT ![p] = out_label("write", r.path)]
    /\ UNCHANGED <<scull_num_devs, kmod, scull_quantum, scull_qset, lock, private_data>>

\* the caller of a short write calls write again with the bytes not yet
\* written, at the offset the cursor advanced to
write_more(p) ==
    /\ pc[p] = "ret"
    /\ loc[p].op = "write"
    /\ loc[p].path = "ok"
    /\ loc[p].retval < Len(loc[p].buf)
    /\ LET remainder == SubSeq(loc[p].buf, loc[p].retval + 1, Len(loc[p].buf))
       IN  loc' = [loc EXCEPT ![p] =
               [InitLoc EXCEPT !.op = "write", !.off = f_pos[p],
                               !.buf = remainder, !.count = Len(remainder),
                               !.size0 = scull_devices[private_data[p]].size]]
    /\ pc' = [pc EXCEPT ![p] = "write_lock"]
    /\ UNCHANGED <<scull_num_devs, kmod, scull_quantum, scull_qset, scull_devices, lock,
                   private_data, f_pos, loop>>

-----------------------------------------------------------------------------
(* The module: scull_init, scull_exit and the iterator of /proc/scullseq *)

\* an element of the table as kzalloc returns it
ZeroDev == [data |-> <<>>, quantum |-> 0, qset |-> 0, size |-> 0]

\* an element of the table after the loop of scull_init
NewDev == [data |-> <<>>, quantum |-> scull_quantum, qset |-> scull_qset,
           size |-> 0]

\* the indexes the loop of scull_cleanup goes through
CleanupRange == 0 .. (scull_num_devs - 1)

\* insmod: scull_init up to the loop.  The region registration or the
\* kzalloc of the table may fail; otherwise the table of 4 zeroed elements
\* exists and the loop begins.
scull_init ==
    /\ kmod.pc = "unloaded"
    /\ \/ /\ kmod' = [kmod EXCEPT !.pc = "failed", !.err = "region"]
          /\ UNCHANGED scull_devices
       \/ /\ kmod' = [kmod EXCEPT !.pc = "failed", !.err = "table"]
          /\ UNCHANGED scull_devices
       \/ /\ kmod' = [kmod EXCEPT !.pc = "init", !.i = 0]
          /\ scull_devices' = [d \in Devices |-> ZeroDev]
    /\ UNCHANGED <<scull_num_devs, scull_quantum, scull_qset, lock, pc,
                   private_data, f_pos, loc, loop>>

\* one turn of the loop of scull_init: element i gets quantum, qset and a
\* free mutex, then scull_setup_cdev adds its cdev.  From cdev_add on the
\* device can be opened, while the loop goes on.  When cdev_add fails
\* scull_cleanup begins; after the last element the proc entries are
\* created and scull_init returns 0.
scull_setup_cdev ==
    /\ kmod.pc = "init"
    /\ LET i == kmod.i
       IN  /\ scull_devices' = [scull_devices EXCEPT ![i] = NewDev]
           /\ lock' = [lock EXCEPT ![i] = NoOwner]
           /\ \/ kmod' = [kmod EXCEPT !.pc = "cleanup", !.i = 0,
                                       !.inited = @ \cup {i}, !.err = "cdev"]
              \/ kmod' = [kmod EXCEPT
                            !.pc = IF i + 1 < NumDevs THEN "init" ELSE "live",
                            !.i = i + 1,
                            !.inited = @ \cup {i},
                            !.cdevs = @ \cup {i}]
    /\ UNCHANGED <<scull_num_devs, scull_quantum, scull_qset, pc,
                   private_data, f_pos, loc, loop>>

\* rmmod: scull_exit removes the proc entries and scull_cleanup begins.
\* The kernel unloads the module only when no file of it is open
\* (scull_fops.owner) and no proc read is under way.
scull_exit ==
    /\ kmod.pc = "live"
    /\ \A p \in AllProcs : pc[p] = "idle" /\ ~IsOpen(p)
    /\ kmod' = [kmod EXCEPT !.pc = "cleanup", !.i = 0, !.going = TRUE]
    /\ UNCHANGED <<scull_num_devs, scull_quantum, scull_qset, scull_devices,
                   lock, pc, private_data, f_pos, loc, loop>>

\* the places of a critical section where the caller, the mutex held, is
\* about to walk, free or extend the chain of the device
RacePcs == {"open_trim", "read_body", "write_alloc"}

\* the processes whose critical section on device i an unlocked scull_trim
\* of device i cuts through: those about to walk or extend its chain, and
\* those about to free it when there is something to free
CutBy(i) ==
    {p \in AllProcs :
        /\ pc[p] \in RacePcs
        /\ CurDev(p) = i
        /\ pc[p] = "open_trim" => Len(scull_devices[i].data) > 0}

\* scull_cleanup, one turn of its loop or the end of it.  Index i below
\* scull_num_devs is trimmed and its cdev deleted, with no mutex taken:
\* a caller that holds the mutex and is in the middle of its work on the
\* chain now works on freed memory (raced), and when that caller is
\* itself freeing the chain (scull_trim of scull_open) the second kfree of
\* a segment may as well be the one of scull_cleanup, whose thread is then
\* killed.  An index outside the table is memory beyond the allocation
\* (ub): the thread faults there, the table not freed, or the turn gets
\* through.  After the loop the table is freed and the region
\* unregistered; scull_devices keeps pointing at the freed table.
scull_cleanup ==
    /\ kmod.pc = "cleanup"
    /\ LET i == kmod.i
       IN  IF i \in CleanupRange
           THEN IF i \in DOMAIN scull_devices
                THEN /\ loc' = [p \in AllProcs |->
                            IF p \in CutBy(i)
                            THEN [loc[p] EXCEPT !.raced = TRUE] ELSE loc[p]]
                     /\ \/ /\ scull_devices' =
                                [scull_devices EXCEPT ![i] = scull_trim(@)]
                           /\ kmod' = [kmod EXCEPT !.i = i + 1,
                                                   !.cdevs = @ \ {i},
                                                   !.cleaned = @ \cup {i}]
                        \/ /\ \E p \in CutBy(i) : pc[p] = "open_trim"
                           /\ kmod' = [kmod EXCEPT !.pc = "oops"]
                           /\ UNCHANGED scull_devices
                ELSE /\ UNCHANGED <<scull_devices, loc>>
                     /\ \E fault \in BOOLEAN :
                          kmod' = IF fault
                                  THEN [kmod EXCEPT !.pc = "oops"]
                                  ELSE [kmod EXCEPT !.i = i + 1,
                                                    !.cleaned = @ \cup {i}]
           ELSE /\ UNCHANGED <<scull_devices, loc>>
                /\ kmod' = [kmod EXCEPT
                        !.pc = IF kmod.err = "none" THEN "gone" ELSE "failed",
                        !.freed = TRUE]
    /\ UNCHANGED <<scull_num_devs, scull_quantum, scull_qset, lock, pc,
                   private_data, f_pos, loop>>

\* what the memory after the table holds in the place of qset, quantum and
\* size of an element: any word; 0 is what kzalloc has cleared, 1 and 107
\* stand for the others
GarbageWords == {0, 1, 107}

\* what it holds in the place of a segment: no slot array, or an array
\* whose one slot is NULL or points at something
GarbageSegs == {EmptyQset, [data |-> << <<>> >>], [data |-> << <<0>> >>]}

\* what it holds in the place of the chain: NULL, or a pointer to readable
\* memory from where up to MaxGarbage segments can be walked
GarbageChains ==
    UNION {[1 .. n -> GarbageSegs] : n \in 0 .. MaxGarbage}

\* the elements the memory after the table can be taken for, when all of
\* it can be read; a slot array is read for dev->qset slots
GarbageDevs ==
    {g \in [data : GarbageChains, quantum : GarbageWords,
            qset : GarbageWords, size : GarbageWords] :
        \A i \in 1 .. Len(g.data) :
            g.data[i].data = <<>> \/ Len(g.data[i].data) = g.qset}

\* scull_proc_seqstart and scull_proc_seqnext return scull_devices + pos
\* for every pos below scull_num_devs, and the element is shown.  Beyond
\* the table the element is memory that is no device (ub): the show faults
\* on it, or finds the word it takes for the mutex held and returns
\* -ERESTARTSYS, or gets through it, prints what scull_proc_seqshow prints
\* of the element it takes the memory for, and returns 0.
scull_proc_seqstart(p, pos) ==
    /\ pos < scull_num_devs
    /\ IF pos \in DOMAIN scull_devices
       THEN show_call(p, pos)
       ELSE /\ kmod.pc = "live"
            /\ pc[p] = "idle"
            /\ \E outcome \in {"fault", "held", "through"}, g \in GarbageDevs :
                 /\ loc' = [loc EXCEPT ![p] =
                        [InitLoc EXCEPT
                            !.op = "show", !.v = pos, !.path = "ub",
                            !.out = IF outcome = "through"
                                    THEN scull_proc_seqshow(g).out ELSE <<>>,
                            !.retval = IF outcome = "held"
                                       THEN -ERESTARTSYS ELSE 0]]
                 /\ pc' = [pc EXCEPT ![p] =
                        IF outcome = "fault" THEN "show_oops" ELSE "ret"]
            /\ UNCHANGED <<scull_num_devs, kmod, scull_quantum, scull_qset,
                           scull_devices, lock, private_data, f_pos, loop>>

-----------------------------------------------------------------------------
(* Specifications *)

\* user bytes; 0 is the byte kzalloc leaves in a fresh quantum
UserBytes == {1, 2}

\* user buffers: n user bytes in rotation, starting at b0, so that
\* neighbouring bytes differ
Buf(b0, n) == [i \in 1 .. n |-> ((b0 + i - 2) % Cardinality(UserBytes)) + 1]
Bufs == {Buf(b0, n) : b0 \in UserBytes, n \in 0 .. MaxLen}
AccessModes == {O_RDONLY, O_WRONLY, O_RDWR}

\* f_flags of an open: an access mode, alone or with a flag outside
\* O_ACCMODE (the lowest bit above the mask stands for O_APPEND, O_TRUNC ...)
OpenFlags == AccessModes \cup {m + O_ACCMODE + 1 : m \in AccessModes}

\* one step of process p that needs no other process: p opens a device of
\* devs, writes one of writes (<<offset, buffer>>), reads one of reads
\* (<<offset, count>>)
Step(p, devs, writes, reads) ==
    \/ \E d \in devs, flags \in OpenFlags : scull_open(p, d, flags)
    \/ mutex_lock(p)
    \/ open_trim(p)
    \/ mutex_unlock(p)
    \/ scull_release(p)
    \/ Return(p)
    \/ \E r \in reads : read_call(p, r[1], r[2])
    \/ read_body(p)
    \/ read_copy(p)
    \/ \E w \in writes : write_call(p, w[1], w[2])
    \/ write_alloc(p)
    \/ write_copy(p)

\* Spec: one file on device 0, quantum = 2 and qset = 2, every write that
\* stays within 0 .. MaxEnd and every read that starts there
Writes == {w \in (0 .. MaxEnd) \X Bufs : w[1] + Len(w[2]) <= MaxEnd}
Reads == (0 .. MaxEnd) \X (0 .. MaxLen)

Init == InitWith(2, 2)

Next == Step(1, {0}, Writes, Reads) \/ write_more(1)

Spec == Init /\ [][Next]_vars

\* SpecEx: the worked example of the specification, quantum = 4 and
\* qset = 2: write(dev, 0, "ABCDEFGH"), write(dev, 10, "Z"), read(dev, 2, 4),
\* read(dev, 8, 1), with the bytes A .. H as 1 .. 8 and Z as 9
ExWrites == {<<0, <<1, 2, 3, 4, 5, 6, 7, 8>>>>, <<10, <<9>>>>}
ExReads == {<<2, 4>>, <<8, 1>>}

InitEx == InitWith(4, 2)

NextEx == Step(1, {0}, ExWrites, ExReads) \/ write_more(1)

SpecEx == InitEx /\ [][NextEx]_vars

\* SpecConc: two files on devices 0 and 1, quantum = 2 and qset = 2, the
\* write of one byte at offset 0 and the read of it; a process waiting for
\* a held mutex may be interrupted
ConcWrites == {<<0, <<1>>>>}
ConcReads == {<<0, 1>>, <<1, 1>>}

NextConc ==
    \E p \in AllProcs :
        \/ Step(p, {0, 1}, ConcWrites, ConcReads)
        \/ lock_interrupted(p)
        \/ \E d \in {0, 1} : show_call(p, d)
        \/ show_body(p)

SpecConc == Init /\ [][NextConc]_vars

\* the table has been freed under a call that is about to use it
TableFreed(p) ==
    /\ kmod.freed
    /\ pc[p] \in (LockPcs \cup InsidePcs) \ {"show_oops"}

\* scull_cleanup has trimmed the device under the critical section of p
TrimRaced(p) == loc[p].raced /\ pc[p] \in RacePcs

\* the quantum the copy of a read or write is about to use has been
\* trimmed away by scull_cleanup
QuantumFreed(p) ==
    /\ pc[p] \in {"read_copy", "write_copy"}
    /\ LET dev == scull_devices[private_data[p]]
       IN  IF loc[p].dptr > Len(dev.data) THEN TRUE
           ELSE ~HasQuantum(dev.data, loc[p].dptr, s_pos(f_pos[p], dev))

UseAfterFree(p) == TableFreed(p) \/ TrimRaced(p) \/ QuantumFreed(p)

\* a step of a call on freed memory (ub) that does not get through: the
\* thread is killed where it stands, with the mutex if it holds it, or,
\* before the lock, it finds the word it takes for the mutex of the freed
\* table held and returns -ERESTARTSYS.  The step that gets through is the
\* step of the code on the memory as it was left.
use_after_free(p) ==
    /\ UseAfterFree(p)
    /\ \/ /\ pc' = [pc EXCEPT ![p] = "uaf_oops"]
          /\ loc' = [loc EXCEPT ![p].path = "ub"]
       \/ /\ TableFreed(p)
          /\ pc[p] \in LockPcs
          /\ pc' = [pc EXCEPT ![p] = "ret"]
          /\ loc' = [loc EXCEPT ![p].path = "ub",
                                ![p].retval = -ERESTARTSYS]
    /\ loop' = [loop EXCEPT ![p] = NoLoop]
    /\ UNCHANGED <<scull_num_devs, kmod, scull_quantum, scull_qset,
                   scull_devices, lock, private_data, f_pos>>

\* what a freed quantum holds: any byte
FreedBytes == 0 .. 255

\* the copy of scull_read or scull_write into or out of a freed quantum
\* that does not kill the thread (ub).  When the user buffer faults the
\* call returns -EFAULT as ever, cursor and size untouched; otherwise it
\* ends as if it had worked: a read returns count bytes of whatever lies
\* there, a write advances the cursor and raises size on a device that
\* has no quantum any more.
copy_after_trim(p) ==
    /\ QuantumFreed(p)
    /\ LET d == private_data[p]
           dev == scull_devices[d]
           pos == f_pos[p]
           c == ClampToQuantum(loc[p].count, dev, pos)
       IN  \E fault \in BOOLEAN :
             /\ fault => c > 0
             /\ pc' = [pc EXCEPT ![p] = out_label(loc[p].op, "ub")]
             /\ IF fault
                THEN /\ loc' = [loc EXCEPT ![p].path = "fault",
                                           ![p].count = c,
                                           ![p].retval = -EFAULT]
                     /\ UNCHANGED <<scull_devices, f_pos>>
                ELSE /\ f_pos' = [f_pos EXCEPT ![p] = pos + c]
                     /\ IF loc[p].op = "write"
                        THEN /\ scull_devices' = [scull_devices EXCEPT
                                   ![d].size = SizeAfterWrite(@, pos + c)]
                             /\ loc' = [loc EXCEPT ![p].path = "ub",
                                                   ![p].count = c,
                                                   ![p].retval = c]
                        ELSE /\ UNCHANGED scull_devices
                             /\ \E b \in [1 .. c -> FreedBytes] :
                                  loc' = [loc EXCEPT ![p].path = "ub",
                                                     ![p].count = c,
                                                     ![p].retval = c,
                                                     ![p].out = b]
    /\ loop' = [loop EXCEPT ![p] = NoLoop]
    /\ UNCHANGED <<scull_num_devs, kmod, scull_quantum, scull_qset, lock,
                   private_data>>

\* SpecMod: the module from insmod to rmmod, for every scull_num_devs up to
\* MaxNumDevs, with one file on device 0 and the proc iterator in between
InitMod ==
    /\ scull_quantum = 2
    /\ scull_qset = 2
    /\ scull_num_devs \in 1 .. MaxNumDevs
    /\ kmod = Unloaded
    /\ scull_devices = <<>>
    /\ lock = [d \in Devices |-> NoOwner]
    /\ pc = [p \in AllProcs |-> "idle"]
    /\ private_data = [p \in AllProcs |-> NoDev]
    /\ f_pos = [p \in AllProcs |-> 0]
    /\ loc = [p \in AllProcs |-> InitLoc]
    /\ loop = [p \in AllProcs |-> NoLoop]

NextMod ==
    \/ scull_init
    \/ scull_setup_cdev
    \/ scull_exit
    \/ scull_cleanup
    \/ ~QuantumFreed(1) /\ Step(1, {0}, ConcWrites, ConcReads)
    \/ use_after_free(1)
    \/ copy_after_trim(1)
    \/ \E pos \in 0 .. (MaxNumDevs - 1) : scull_proc_seqstart(1, pos)
    \/ show_body(1)

SpecMod == InitMod /\ [][NextMod]_vars

\* SpecTr: the address translation for module parameters and offsets over
\* the whole range of a C int
TrQuanta == {1, 2, 4000, 46341, 65536, 65537}
TrQsets == {1, 2, 1000, 46341, 65536, 1073741824}
TrOffsets == (0 .. MaxEnd) \cup {3999, 4000, 65536, 4000000, 2147479015, IntMax}

InitTr == \E quantum \in TrQuanta, qset \in TrQsets : InitWith(quantum, qset)

\* the offsets whose item is negative, on a device whose itemsize is not
\* 0 and whose chain the walks for such an item have not yet made
\* MaxAlloc long
NegativeItem(d, pos) ==
    LET dev == scull_devices[d]
    IN  /\ itemsize(dev) # 0
        /\ item(pos, dev) < 0
        /\ Len(dev.data) < MaxAlloc

NextTr ==
    \/ \E pos \in TrOffsets : translate(1, 0, pos)
    \/ Return(1)
    \/ scull_open(1, 0, O_RDWR)
    \/ mutex_lock(1)
    \/ \E pos \in TrOffsets :
            IsOpen(1) /\ NegativeItem(0, pos) /\ write_call(1, pos, <<1, 2>>)
    \/ write_alloc(1)
    \/ mutex_unlock(1)

SpecTr == InitTr /\ [][NextTr]_vars

\* the steps of p inside a critical section, mutex_unlock included
Inside(p) ==
    \/ open_trim(p)
    \/ read_body(p)
    \/ read_copy(p)
    \/ write_alloc(p)
    \/ write_copy(p)
    \/ show_body(p)
    \/ mutex_unlock(p)

\* SpecConc under the kernel's scheduling: a thread inside a critical
\* section keeps running until it has unlocked (nothing in there blocks),
\* and the mutex hands over to its waiters in turn, so a waiter that finds
\* the mutex free again and again gets it
FairConc ==
    /\ SpecConc
    /\ \A p \in AllProcs : WF_vars(Inside(p)) /\ SF_vars(mutex_lock(p))

-----------------------------------------------------------------------------
(* Properties of one file on one device (specification Spec) *)

Dev(p) == scull_devices[private_data[p]]

\* process p is back from a call of kind op
Returned(p, op) == pc[p] = "ret" /\ loc[p].op = op

\* C1 as stated: after write(dev, o, b) a read(dev, o, len(b)) returns
\* exactly b.  Stated of the state a successful write call returns in, where
\* nothing has happened in between.
C1_ReadReturnsAllOfB ==
    \A p \in AllProcs :
        Returned(p, "write") /\ loc[p].path = "ok"
            => ReadResult(Dev(p), loc[p].off, Len(loc[p].buf)) = loc[p].buf

\* the bytes of [o, o + c) come back in full: no hole, not cut by size
FullRead(dev, o, c) ==
    Len(ReadResult(dev, o, c)) = Min(c, dev.quantum - q_pos(o, dev))

\* this step is scull_trim on device d
TrimStep(d) ==
    \E p \in AllProcs :
        pc[p] = "open_trim" /\ pc'[p] # pc[p] /\ private_data[p] = d

\* this step is the copy of a write on device d into bytes of [o, o + c)
OverlappingWriteStep(d, o, c) ==
    \E p \in AllProcs :
        /\ pc[p] = "write_copy" /\ pc'[p] # pc[p] /\ private_data[p] = d
        /\ f_pos[p] < o + c
        /\ o < f_pos[p] + ClampToQuantum(loc[p].count, scull_devices[d], f_pos[p])

C1_Immediate ==
    \A p \in AllProcs :
        Returned(p, "write") /\ loc[p].path = "ok"
            => /\ loc[p].retval =
                    Min(Len(loc[p].buf), Dev(p).quantum - q_pos(loc[p].off, Dev(p)))
               /\ ReadResult(Dev(p), loc[p].off, Len(loc[p].buf))
                    = SubSeq(loc[p].buf, 1, loc[p].retval)

C1_Stable ==
    \A d \in Devices :
        \/ scull_devices'[d] = scull_devices[d]
        \/ \A o \in 0 .. MaxEnd, c \in 1 .. MaxLen :
            (/\ FullRead(scull_devices[d], o, c)
             /\ ~TrimStep(d)
             /\ ~OverlappingWriteStep(d, o, c))
                => ReadResult(scull_devices'[d], o, c) = ReadResult(scull_devices[d], o, c)

\* C1 amended: a write(dev, o, b) that succeeds returns
\* n = min(len(b), quantum - o mod quantum), and a read(dev, o, len(b)) that
\* succeeds then returns exactly the first n bytes of b; this stays so across
\* every step that is neither a trim of the device nor a write into
\* [o, o + len(b)).
C1_ReadReturnsWrittenPrefix == []C1_Immediate /\ [][C1_Stable]_vars

\* a write call was cut at the end of its quantum and returned
C1_Witness ==
    \E p \in AllProcs :
        /\ Returned(p, "write") /\ loc[p].path = "ok"
        /\ loc[p].retval >= 1 /\ loc[p].retval < Len(loc[p].buf)
        /\ loc[p].off > 0

\* C2 as stated: size is the maximum of (offset + bytes written) over the
\* write calls since the last trim, and only trim lowers it.  Stated call by
\* call: a write call that reports a count n >= 0 at offset o leaves
\* size = max(size before the call, o + n), and no read or write call leaves
\* size lower than it found it.
C2_SizeIsMaxWriteEnd ==
    \A p \in AllProcs :
        /\ Returned(p, "write") /\ loc[p].retval >= 0
                => Dev(p).size = Max(loc[p].size0, loc[p].off + loc[p].retval)
        /\ (Returned(p, "write") \/ Returned(p, "read"))
                => Dev(p).size >= loc[p].size0

\* C3: right after trim the device has no segment (so no quantum), size 0
\* and the default quantum and qset, and a read at offset 0 of any length
\* returns no byte, both as computed on that state and in every read call
\* at offset 0 that finds the device with size 0.
C3_TrimEmpties ==
    \A p \in AllProcs :
        /\ pc[p] = "open_unlock"
                => /\ Dev(p).data = <<>>
                   /\ Dev(p).size = 0
                   /\ Dev(p).quantum = scull_quantum
                   /\ Dev(p).qset = scull_qset
                   /\ \A c \in 0 .. MaxLen : ReadResult(Dev(p), 0, c) = <<>>
        /\ (Returned(p, "read") /\ loc[p].off = 0 /\ Dev(p).size = 0)
                => loc[p].retval = 0 /\ loc[p].out = <<>> /\ f_pos[p] = 0

\* trim has just emptied a device that held data
C3_Witness ==
    \E p \in AllProcs : pc[p] = "open_unlock" /\ loc[p].size0 > 0

\* the caller's loop has written all of b: the last call took the rest
LoopDone(p) ==
    /\ Returned(p, "write") /\ loc[p].path = "ok"
    /\ loop[p].active
    /\ loc[p].retval = Len(loc[p].buf)

\* C4: in the write-all loop every successful call with bytes left moves at
\* least one byte and at most quantum - intra_offset, so the loop ends; when
\* it has ended without a failure, size is what one contiguous write of b at
\* o gives, max(size before, o + len(b)), and reading [o, o + len(b)) back
\* by repeated reads gives b.
C4_LoopIsOneWrite ==
    \A p \in AllProcs :
        /\ (Returned(p, "write") /\ loc[p].path = "ok" /\ Len(loc[p].buf) > 0)
                => /\ loc[p].retval >= 1
                   /\ loc[p].retval <= Dev(p).quantum - q_pos(loc[p].off, Dev(p))
        /\ LoopDone(p)
                => /\ f_pos[p] = loop[p].o + Len(loop[p].b)
                   /\ Dev(p).size = Max(loop[p].size0, loop[p].o + Len(loop[p].b))
                   /\ ReadAll(Dev(p), loop[p].o, Len(loop[p].b)) = loop[p].b

\* a loop of several calls has ended, and b lies in two segments
C4_Witness ==
    \E p \in AllProcs :
        /\ LoopDone(p)
        /\ Len(loc[p].buf) < Len(loop[p].b)
        /\ item(loop[p].o, Dev(p)) # item(loc[p].off, Dev(p))

\* C5 as stated: a write that cannot get memory for the segment, the slot
\* array or the quantum returns -ENOMEM, with the lock released and the
\* cursor and size as before the call.
C5_AllocFailureIsENOMEM ==
    \A p \in AllProcs :
        (Returned(p, "write")
            /\ loc[p].path \in {"follow_null", "qset_enomem", "quantum_enomem"})
            => /\ loc[p].retval = -ENOMEM
               /\ lock[private_data[p]] # p
               /\ f_pos[p] = loc[p].off
               /\ Dev(p).size = loc[p].size0

\* C10: a read or write whose byte copy faults returns -EFAULT with the lock
\* released, the cursor where it was and size as before the call.
C10_FaultLeavesCursorAndSize ==
    \A p \in AllProcs :
        (pc[p] = "ret" /\ loc[p].path = "fault")
            => /\ loc[p].op \in {"read", "write"}
               /\ loc[p].retval = -EFAULT
               /\ lock[private_data[p]] # p
               /\ f_pos[p] = loc[p].off
               /\ Dev(p).size = loc[p].size0

\* a write that would have grown the device faulted
C10_Witness ==
    \E p \in AllProcs :
        /\ Returned(p, "write") /\ loc[p].path = "fault"
        /\ loc[p].off + loc[p].count > loc[p].size0

-----------------------------------------------------------------------------
(* The worked example (specification SpecEx) *)

\* the quantum that holds offset pos is missing: no segment, no slot array
\* or an empty slot
QuantumAbsent(dev, pos) ==
    \/ item(pos, dev) + 1 > Len(dev.data)
    \/ IsHole(dev.data, item(pos, dev) + 1, s_pos(pos, dev))

\* the device holds what write(dev, 0, "ABCDEFGH"), carried through by the
\* caller, and write(dev, 10, "Z") leave
ExampleWritten(dev) ==
    /\ dev.quantum = 4 /\ dev.qset = 2
    /\ dev.size = 11
    /\ ReadAll(dev, 0, 8) = <<1, 2, 3, 4, 5, 6, 7, 8>>
    /\ ReadResult(dev, 10, 1) = <<9>>

\* read(dev, 8, 1) has returned from its critical section
ExampleRead(p) ==
    /\ Returned(p, "read") /\ loc[p].off = 8 /\ loc[p].path # "intr"
    /\ ExampleWritten(Dev(p))

\* C6 as stated: a read below size at an offset no write covered returns
\* nothing; in the example read(dev, 8, 1) transfers zero bytes and reports
\* no BoundaryFault.  No write of SpecEx covers offset 8.
C6_UncoveredOffsetReadsNothing ==
    \A p \in AllProcs :
        (Returned(p, "read") /\ loc[p].off = 8 /\ loc[p].off < Dev(p).size
            /\ loc[p].path # "intr")
            => loc[p].retval = 0

\* C6 amended: a read below size whose quantum was never allocated returns
\* zero bytes and no error; an offset no write covered, in a quantum that a
\* write next to it allocated, reads as the zero bytes of that quantum: in
\* the example read(dev, 8, 1) transfers one zero byte, and reports
\* BoundaryFault only when copy_to_user itself fails.
C6_HoleOrZeroBytes ==
    \A p \in AllProcs :
        /\ (Returned(p, "read") /\ loc[p].path # "intr"
                /\ loc[p].off < Dev(p).size /\ QuantumAbsent(Dev(p), loc[p].off))
                => loc[p].retval = 0 /\ loc[p].out = <<>> /\ loc[p].path = "hole"
        /\ ExampleRead(p)
                => \/ loc[p].path = "ok" /\ loc[p].retval = 1 /\ loc[p].out = <<0>>
                   \/ loc[p].path = "fault" /\ loc[p].retval = -EFAULT

\* the read of the example has delivered its byte
C6_Witness ==
    \E p \in AllProcs : ExampleRead(p) /\ loc[p].path = "ok"

-----------------------------------------------------------------------------
(* Concurrent files (specifications SpecConc and FairConc) *)

\* p is inside the critical section of device d
InCS(p, d) == pc[p] \in InsidePcs /\ CurDev(p) = d

\* the owner of a device's mutex is the one process inside its critical
\* section
Mutex ==
    \A d \in Devices, p \in AllProcs : InCS(p, d) => lock[d] = p

\* a device changes only in a step of the process that owns its mutex and
\* is inside the critical section
OnlyOwnerChanges ==
    \A d \in Devices :
        scull_devices'[d] # scull_devices[d]
            => \E p \in AllProcs :
                /\ lock[d] = p /\ InCS(p, d) /\ pc'[p] # pc[p]
                /\ \A q \in AllProcs \ {p} : pc'[q] = pc[q]

\* what a read delivers is the content of the device as its owner left it:
\* with OnlyOwnerChanges, nothing moved between the lock and the copy
ReadIsAtomic ==
    \A p \in AllProcs :
        (pc[p] = "read_copy" /\ pc'[p] # pc[p] /\ loc'[p].path = "ok")
            => loc'[p].out = ReadResult(scull_devices[private_data[p]],
                                        loc[p].off, loc[p].count)

\* C7: at most one operation is inside a device's critical section, the
\* device changes only in steps of that operation, and a read delivers the
\* bytes of the state it locked; so operations on one device take effect one
\* after the other in the order they got the lock.
C7_OneAtATime == [][Mutex' /\ OnlyOwnerChanges /\ ReadIsAtomic]_vars

\* a reader is inside the critical section while a writer waits for it
C7_Witness ==
    \E p, q \in AllProcs :
        /\ pc[p] = "read_copy"
        /\ pc[q] = "write_lock"
        /\ private_data[p] = private_data[q]

\* p holds no mutex when it is outside every critical section
ReleasedOutside ==
    \A p \in AllProcs, d \in Devices :
        pc[p] \notin InsidePcs => lock[d] # p

OneLockEach ==
    \A p \in AllProcs : Cardinality({d \in Devices : lock[d] = p}) <= 1

\* a step of p leaves every device but its own, and that device's mutex,
\* as they were
OtherDevicesUntouched ==
    \A p \in AllProcs :
        pc'[p] # pc[p]
            => \A d \in Devices \ {CurDev(p)'} :
                scull_devices'[d] = scull_devices[d] /\ lock'[d] = lock[d]

\* a process that waits for a mutex gets on: it takes the mutex or is
\* interrupted
WaitingEnds ==
    \A p \in AllProcs : (pc[p] \in LockPcs) ~> (pc[p] \notin LockPcs)

\* C8: an operation has released the mutex whenever it is outside the
\* critical section, whichever exit it took; a process never owns two
\* mutexes; its steps touch no other device; and under the kernel's
\* scheduling every wait for a mutex ends.
C8_LocksReleasedAndProgress ==
    /\ [][ReleasedOutside' /\ OneLockEach' /\ OtherDevicesUntouched]_vars
    /\ WaitingEnds

\* C9: an open, read or write whose wait for the mutex is interrupted
\* returns -ERESTARTSYS, and the step changes no device, no mutex owner and
\* not the caller's cursor.
C9_InterruptedChangesNothing ==
    [][\A p \in AllProcs :
        (pc[p] \in LockPcs /\ pc'[p] = "ret")
            => /\ loc'[p].retval = -ERESTARTSYS
               /\ scull_devices' = scull_devices
               /\ lock' = lock
               /\ f_pos'[p] = f_pos[p]]_vars

\* a write-only open of a device that holds data was interrupted
C9_Witness ==
    \E p \in AllProcs :
        /\ Returned(p, "open") /\ loc[p].path = "intr"
        /\ Dev(p).size > 0

-----------------------------------------------------------------------------
(* Reads beyond the end of the data (specification Spec) *)

\* C11: a read whose offset is greater than the size of the device returns
\* 0, delivers no byte and leaves the cursor where it was.
C11_ReadPastEndIsEmpty ==
    \A p \in AllProcs :
        (Returned(p, "read") /\ loc[p].path # "intr"
            /\ loc[p].off > Dev(p).size)
            => /\ loc[p].retval = 0
               /\ loc[p].out = <<>>
               /\ f_pos[p] = loc[p].off

\* a read beyond the end of a device that holds data has returned
C11_Witness ==
    \E p \in AllProcs :
        /\ Returned(p, "read") /\ loc[p].path = "eof"
        /\ loc[p].count > 0
        /\ Dev(p).size > 0 /\ loc[p].off > Dev(p).size

-----------------------------------------------------------------------------
(* Size and capacity (specification SpecMod) *)

\* the bytes the segments of the chain can address
Capacity(dev) == Len(dev.data) * dev.qset * dev.quantum

\* C12: in every reachable state the size of every device is at most the
\* number of segments in its chain times qset times quantum.
C12_SizeWithinCapacity ==
    \A d \in DOMAIN scull_devices :
        scull_devices[d].size <= Capacity(scull_devices[d])

-----------------------------------------------------------------------------
(* Open and release (specification Spec) *)

\* p enters scull_open
OpenStep(p) == pc[p] = "idle" /\ pc'[p] # "idle" /\ loc'[p].op = "open"

\* a step of p inside an open or a release, the entry included
OpenOrReleaseStep(p) ==
    /\ pc'[p] # pc[p]
    /\ \/ loc[p].op \in {"open", "release"}
       \/ pc[p] = "idle" /\ loc'[p].op \in {"open", "release"}

\* C13: an open goes on to trim exactly when its access mode is
\* write-only, the trim runs with the device's mutex held and empties the
\* device, and no other step of an open and no step of a release changes
\* any device.
C13_OpenTrimsIffWriteOnly ==
    [][\A p \in AllProcs :
        /\ OpenStep(p)
            => /\ pc'[p] = (IF AccMode(loc'[p].flags) = O_WRONLY
                            THEN "open_lock" ELSE "ret")
               /\ loc'[p].path = "ok" <=> AccMode(loc'[p].flags) # O_WRONLY
        /\ (pc[p] = "open_trim" /\ pc'[p] # pc[p])
            => /\ AccMode(loc[p].flags) = O_WRONLY
               /\ lock[private_data[p]] = p
               /\ scull_devices'[private_data[p]] =
                    [data |-> <<>>, size |-> 0,
                     quantum |-> scull_quantum, qset |-> scull_qset]
               /\ pc'[p] = "open_unlock"
        /\ (OpenOrReleaseStep(p) /\ pc[p] # "open_trim")
            => scull_devices' = scull_devices
        /\ (pc[p] = "open_lock" /\ pc'[p] = "open_trim")
            => AccMode(loc[p].flags) = O_WRONLY]_vars

\* a write-only open, its mode given with another flag, has emptied a
\* device that held data
C13_Witness ==
    \E p \in AllProcs :
        /\ Returned(p, "open") /\ loc[p].retval = 0
        /\ loc[p].flags = O_WRONLY + O_ACCMODE + 1
        /\ loc[p].size0 > 0
        /\ Dev(p).size = 0 /\ Dev(p).data = <<>>

-----------------------------------------------------------------------------
(* The device table (specification SpecMod) *)

\* the instances scull_num_devs asks for
Configured == 0 .. (scull_num_devs - 1)

\* C14: scull_init creates exactly scull_num_devs devices, each with the
\* default quantum and qset and a free mutex; scull_cleanup and the proc
\* iterator go through exactly those, and never through an index outside
\* the table.
C14_TableMatchesNumDevs ==
    /\ kmod.pc = "live"
        => /\ kmod.inited = Configured
           /\ DOMAIN scull_devices = Configured
           /\ \A d \in DOMAIN scull_devices :
                /\ scull_devices[d].quantum = scull_quantum
                /\ scull_devices[d].qset = scull_qset
    /\ kmod.pc \in {"gone", "oops"}
        => /\ kmod.cleaned = kmod.inited
           /\ kmod.cleaned \subseteq Devices
    /\ \A p \in AllProcs :
        loc[p].op = "show" => loc[p].v \in kmod.inited /\ loc[p].v \in Devices

-----------------------------------------------------------------------------
(* Reads as observers (specification Spec) *)

\* C15: no step of a read changes the device: the number of segments, the
\* slot arrays, the quanta and the size are after the call what they were
\* before it.
C15_ReadNeverAllocates ==
    [][\A p \in AllProcs :
        (loc[p].op = "read" /\ pc'[p] # pc[p])
            => scull_devices' = scull_devices]_vars

-----------------------------------------------------------------------------
(* Trim and the mutex (specification SpecMod) *)

\* the thread that runs insmod or rmmod, after the processes that hold files
ModThread == Cardinality(AllProcs) + 1

\* a turn of the loop of scull_cleanup, begun by scull_exit or by a failing
\* scull_init
CleanupStep == kmod'.cleaned # kmod.cleaned

\* C16: whoever calls scull_trim on a device owns the mutex of that device
\* at that moment: the process of a write-only open, and the thread that
\* runs scull_cleanup.
C16_TrimUnderLock ==
    [][/\ \A p \in AllProcs :
            (pc[p] = "open_trim" /\ pc'[p] # pc[p])
                => lock[private_data[p]] = p
       /\ CleanupStep
            => \A d \in (kmod'.cleaned \ kmod.cleaned) \cap Devices :
                    lock[d] = ModThread]_vars

-----------------------------------------------------------------------------
(* The address translation (specification SpecTr) *)

\* C17: for every offset pos >= 0 and every quantum > 0 and qset > 0 the
\* translation yields (item, s_pos, q_pos) with
\* item * quantum * qset + s_pos * quantum + q_pos = pos, 0 <= s_pos < qset
\* and 0 <= q_pos < quantum.  The triple with these properties is unique:
\* q_pos = pos mod quantum, s_pos = (pos div quantum) mod qset and
\* item = (pos div quantum) div qset, which is how it is stated here, with
\* no product that could leave the integers of the checker.
C17_TranslationDecomposesOffset ==
    \A p \in AllProcs :
        Returned(p, "translate")
            => LET dev == scull_devices[loc[p].v]
                   pos == loc[p].off
               IN  /\ loc[p].path = "ok"
                   /\ loc[p].tr = <<(pos \div dev.quantum) \div dev.qset,
                                    (pos \div dev.quantum) % dev.qset,
                                    pos % dev.quantum>>

-----------------------------------------------------------------------------
(* scull_follow, as scull_read and scull_write call it (specification Spec) *)

\* p runs scull_follow in this step: the step of scull_read that gets past
\* the end-of-data test, and the step of scull_write up to the copy
FollowStep(p) ==
    /\ pc'[p] # pc[p]
    /\ \/ pc[p] = "read_body" /\ ~PastEnd(Dev(p), f_pos[p])
       \/ pc[p] = "write_alloc"

\* segment nw is segment o but for what scull_write allocates in the
\* segment scull_follow returned to it: a slot array of qset empty slots
\* where there was none, and a quantum in slot sp where there was none
KeptBut(o, nw, sp, qset) ==
    LET slots == IF o.data = <<>> THEN [s \in 1 .. qset |-> <<>>] ELSE o.data
    IN  \/ nw = o
        \/ /\ Len(nw.data) = Len(slots)
           /\ \A s \in 1 .. Len(slots) :
                (s # sp + 1 \/ slots[s] # <<>>) => nw.data[s] = slots[s]

\* C18: scull_follow(dev, n), n >= 0, returns segment n when no allocation
\* fails and the chain is then max(old length, n + 1) long; it returns NULL
\* when, and only when, an allocation fails, and the chain is then longer
\* by the segments whose allocation succeeded before; either way every
\* old segment keeps its place, slot array and quanta, and every new
\* segment is linked behind them with no slot array.  In scull_write the
\* same step goes on to put a slot array and a quantum into the segment
\* returned, and into no other.
C18_FollowReturnsSegmentN ==
    [][\A p \in AllProcs :
        (FollowStep(p) /\ item(f_pos[p], Dev(p)) >= 0)
            => LET old == Dev(p).data
                   new == scull_devices'[private_data[p]].data
                   n == item(f_pos[p], Dev(p))
                   sp == s_pos(f_pos[p], Dev(p))
                   dptr == loc'[p].dptr
                   mem == loc'[p].mem
                   written(i) == pc[p] = "write_alloc" /\ i = dptr
               IN  /\ Len(new) >= Len(old)
                   /\ \A i \in 1 .. Len(old) :
                        IF written(i)
                        THEN KeptBut(old[i], new[i], sp, Dev(p).qset)
                        ELSE new[i] = old[i]
                   /\ \A i \in (Len(old) + 1) .. Len(new) :
                        IF written(i)
                        THEN KeptBut(EmptyQset, new[i], sp, Dev(p).qset)
                        ELSE new[i] = EmptyQset
                   /\ (dptr = NULL) <=> (Len(old) + mem < n + 1)
                   /\ dptr # NULL
                        => dptr = n + 1 /\ Len(new) = Max(Len(old), n + 1)
                   /\ dptr = NULL
                        => Len(new) = Len(old) + mem]_vars

\* a write has followed an empty chain towards its second segment and the
\* second kzalloc failed: the write returned with the head segment, the
\* one created before the failure, in the chain
C18_Witness ==
    \E p \in AllProcs :
        /\ Returned(p, "write") /\ loc[p].path = "follow_null"
        /\ loc[p].dptr = NULL
        /\ loc[p].mem = 1
        /\ item(loc[p].off, Dev(p)) = 1
        /\ Dev(p).data = <<EmptyQset>>

-----------------------------------------------------------------------------
(* What a successful read returns (specification Spec) *)

\* the bytes stored at [pos, pos + n) in the quantum that holds pos
StoredBytes(dev, pos, n) ==
    SubSeq(dev.data[item(pos, dev) + 1].data[s_pos(pos, dev) + 1],
           q_pos(pos, dev) + 1, q_pos(pos, dev) + n)

\* C19: a successful read returns n bytes, n at most the requested length,
\* size - offset and quantum - q_pos; they are the bytes stored at
\* [offset, offset + n) of one quantum, and the cursor advances by n.
\* Stated of the two steps of scull_read inside the critical section: the
\* first cuts the requested count to size - offset, the second cuts it to
\* the end of the quantum, copies and advances.
C19_ReadReturnsStoredBytes ==
    [][\A p \in AllProcs :
        LET dev == Dev(p)
            pos == f_pos[p]
            n == loc'[p].retval
        IN  /\ (pc[p] = "read_body" /\ pc'[p] = "read_copy")
                => /\ loc'[p].count <= loc[p].count
                   /\ loc'[p].count <= dev.size - pos
                   /\ loc'[p].count >= 0
            /\ (pc[p] = "read_copy" /\ pc'[p] # pc[p] /\ loc'[p].path = "ok")
                => /\ n = Len(loc'[p].out)
                   /\ n <= loc[p].count
                   /\ n <= dev.size - pos
                   /\ n <= dev.quantum - q_pos(pos, dev)
                   /\ n >= 0
                   /\ loc'[p].out = StoredBytes(dev, pos, n)
                   /\ f_pos'[p] = pos + n
                   /\ pos = loc[p].off]_vars

\* a read has returned fewer bytes than asked for and than the quantum
\* holds, because the data ends there
C19_Witness ==
    \E p \in AllProcs :
        /\ Returned(p, "read") /\ loc[p].path = "ok"
        /\ loc[p].retval >= 1
        /\ loc[p].retval = Dev(p).size - loc[p].off
        /\ loc[p].retval < Dev(p).quantum - q_pos(loc[p].off, Dev(p))

-----------------------------------------------------------------------------
(* The diagnostic listing (specification SpecConc) *)

\* C20: in every reachable state of a device, a last segment without slot
\* array included, scull_proc_seqshow looks at the slots of the last segment
\* only when its slot array exists, runs to its end, leaves the device as
\* it was and has released the mutex when it returns.
C20_ShowSkipsMissingSlotArray ==
    \A p \in AllProcs :
        loc[p].op = "show"
            => /\ loc[p].path # "ub"
               /\ pc[p] # "show_oops"
               /\ pc[p] = "ret" => lock[loc[p].v] # p

====
